---- MODULE Spec2Model ----
(***************************************************************************)
(* Building Surface Visualizer (ApiMachine_2_works.py).                    *)
(*                                                                         *)
(* The program is a Tk application with two callbacks: the Visualize       *)
(* button, which ends in visualize_data(data, treeview), and the column    *)
(* headers of the table, which are bound to sortby(treeview, col, flag).   *)
(* Tk runs the callbacks one at a time, so each callback is one action.    *)
(*                                                                         *)
(* Conventions.                                                            *)
(*  - A Python str that is data (a building id, a surface type, a table    *)
(*    cell, an item id) is the sequence of its code points, so that the    *)
(*    comparison of two strings is the lexicographic one Python makes.     *)
(*    Dictionary keys and printed messages are TLA+ strings.               *)
(*  - A dict is a function; a key that is absent is absent from DOMAIN.    *)
(*  - nz is measured in units of 1e-7, so that epsilon = 1e-6 is 10.       *)
(*  - area values are non-negative JSON integers.                          *)
(*  - The table (ttk.Treeview) is the sequence of its rows in display      *)
(*    order; a row is its item id and its three cell texts.                *)
(*                                                                         *)
(* Specifications.                                                         *)
(*  - Spec: a session from start-up, responses and header clicks in any    *)
(*    order.                                                               *)
(*  - SpecPipeline: visualize_data on one response of any shape.           *)
(*  - SpecSort: visualize_data on one response, then header clicks.        *)
(*  - SpecClassify: classify_surface on its own.                           *)
(***************************************************************************)
EXTENDS Integers, Sequences, FiniteSets, TLC

VARIABLES
    tree,      \* the Treeview: rows in display order
    serial,    \* the Treeview's item counter (last item id handed out)
    heading,   \* column -> the descending flag its header command passes
    clicks,    \* column -> number of header clicks delivered so far
    frame      \* locals of the most recent call, as they were when it ended

vars == <<tree, serial, heading, clicks, frame>>

----------------------------------------------------------------------------
(* Bounds of the model *)

MaxNz == 60            \* classify_surface is applied to -MaxNz..MaxNz
MaxBuildings == 2      \* buildings in one response
MaxTriangles == 2      \* triangles in one response
MaxSerial == 3         \* item ids handed out in one session
MaxRows == 3           \* rows of a table that is sorted
MaxClicks == 3         \* header clicks in one session

----------------------------------------------------------------------------
(* Text *)

Roof == <<82, 111, 111, 102>>
Wall == <<87, 97, 108, 108>>
Floor == <<70, 108, 111, 111, 114>>
Unknown == <<85, 110, 107, 110, 111, 119, 110>>

\* Python's str < str: lexicographic by code point, a proper prefix is less
RECURSIVE TextLess(_, _)
TextLess(s, t) ==
    IF t = <<>> THEN FALSE
    ELSE IF s = <<>> THEN TRUE
    ELSE IF Head(s) # Head(t) THEN Head(s) < Head(t)
    ELSE TextLess(Tail(s), Tail(t))

\* str(n) of a non-negative int: its decimal digits
RECURSIVE DecimalText(_)
DecimalText(n) ==
    IF n < 10 THEN <<48 + n>>
    ELSE Append(DecimalText(n \div 10), 48 + (n % 10))

\* float(s) of a decimal digit string
RECURSIVE ParseFloat(_)
ParseFloat(s) ==
    IF s = <<>> THEN 0
    ELSE 10 * ParseFloat(SubSeq(s, 1, Len(s) - 1)) + (s[Len(s)] - 48)

HexDigit(d) == IF d < 10 THEN 48 + d ELSE 55 + d

RECURSIVE HexText(_)
HexText(n) ==
    IF n < 16 THEN <<HexDigit(n)>>
    ELSE Append(HexText(n \div 16), HexDigit(n % 16))

\* the item id the Treeview gives its n-th item: "I%03X"
ItemId(n) ==
    LET h == HexText(n)
        pad == IF Len(h) >= 3 THEN <<>> ELSE [q \in 1..(3 - Len(h)) |-> 48]
    IN <<73>> \o pad \o h

----------------------------------------------------------------------------
(* classify_surface *)

Epsilon == 10

\* a variant that counts nz = epsilon as Roof
classify_surface_ge(nz, epsilon) ==
    IF nz >= epsilon THEN Roof
    ELSE IF nz < -epsilon THEN Floor
    ELSE Wall

classify_surface(nz, epsilon) ==
    IF nz > epsilon THEN Roof
    ELSE IF nz < -epsilon THEN Floor
    ELSE Wall

----------------------------------------------------------------------------
(* dict.get *)

Get(d, key, default) == IF key \in DOMAIN d THEN d[key] ELSE default

----------------------------------------------------------------------------
(* The decoded API response *)

\* the nine coordinates, in the order visualize_data looks them up
CoordKeys == <<"x0", "x1", "x2", "y0", "y1", "y2", "z0", "z1", "z2">>

Triangle(nz, area, v) ==
    [x0 |-> v[1], x1 |-> v[2], x2 |-> v[3],
     y0 |-> v[4], y1 |-> v[5], y2 |-> v[6],
     z0 |-> v[7], z1 |-> v[8], z2 |-> v[9],
     nz |-> nz, area |-> area]

Without(d, key) == [k \in DOMAIN d \ {key} |-> d[k]]

Va == <<0, 1, 0, 0, 0, 1, 0, 0, 0>>
Vb == <<2, 3, 4, 5, 6, 7, 8, 9, 10>>

\* a Roof, a Wall with nz = epsilon, a Floor without area, a triangle without
\* nz, and one that lacks two coordinates; two shapes
PipelineParticles ==
    {Triangle(Epsilon + 1, 9, Va),
     Triangle(Epsilon, 10, Vb),
     Without(Triangle(-Epsilon - 1, 10, Va), "area"),
     Without(Triangle(Epsilon + 1, 9, Va), "nz"),
     Without(Without(Triangle(Epsilon + 1, 10, Vb), "z2"), "x1")}

PipelineEhrs == {<<66>>}

SeqsUpTo(S, n) == UNION {[1..m -> S] : m \in 0..n}

\* building objects: with or without 'ehr', with or without 'particles'
Buildings(P, E) ==
    LET lists == SeqsUpTo(P, MaxTriangles)
    IN {[ehr |-> e, particles |-> ps] : e \in E, ps \in lists}
       \cup {[particles |-> ps] : ps \in lists}
       \cup {[ehr |-> e] : e \in E}

RECURSIVE TriangleCount(_)
TriangleCount(items) ==
    IF items = <<>> THEN 0
    ELSE Len(Get(Head(items), "particles", <<>>)) + TriangleCount(Tail(items))

PyList(items) == [type |-> "list", items |-> items]
NotAList == [type |-> "dict", items |-> <<>>]

\* the lists of at most n buildings of B with at most t triangles in all
RECURSIVE ListsWithin(_, _, _)
ListsWithin(B, n, t) ==
    IF n = 0 THEN {<<>>}
    ELSE {<<>>} \cup
         UNION {{<<b>> \o rest : b \in {c \in B : TriangleCount(<<c>>) = k},
                                 rest \in ListsWithin(B, n - 1, t - k)} :
                   k \in 0..t}

\* what the API may answer: a list of buildings, or a JSON value that is none
Responses(B) ==
    {PyList(items) : items \in ListsWithin(B, MaxBuildings, MaxTriangles)}
    \cup {NotAList}

----------------------------------------------------------------------------
(* visualize_data: the loop over buildings and particles *)

SurfaceTypes == <<Roof, Wall, Floor>>

EmptyCoord == [x |-> <<>>, y |-> <<>>, z |-> <<>>, i |-> <<>>, j |-> <<>>, k |-> <<>>]
InitCoords == [t \in {Roof, Wall, Floor} |-> EmptyCoord]

NoError == [exc |-> "none", key |-> ""]
KeyError(key) == [exc |-> "KeyError", key |-> key]

\* particle['x0'] ... particle['z2']: the first key that is absent, if any
MissingCoord(particle) ==
    LET absent == {n \in 1..Len(CoordKeys) : CoordKeys[n] \notin DOMAIN particle}
    IN IF absent = {} THEN NoError
       ELSE KeyError(CoordKeys[CHOOSE n \in absent : \A m \in absent : n <= m])

\* a variant that numbers the vertices by the triangle count
ExtendCoords_count(c, particle) ==
    LET idx0 == Len(c.i)
    IN [x |-> c.x \o <<particle.x0, particle.x1, particle.x2>>,
        y |-> c.y \o <<particle.y0, particle.y1, particle.y2>>,
        z |-> c.z \o <<particle.z0, particle.z1, particle.z2>>,
        i |-> Append(c.i, idx0),
        j |-> Append(c.j, idx0 + 1),
        k |-> Append(c.k, idx0 + 2)]

ExtendCoords(c, particle) ==
    LET idx0 == Len(c.x)
    IN [x |-> c.x \o <<particle.x0, particle.x1, particle.x2>>,
        y |-> c.y \o <<particle.y0, particle.y1, particle.y2>>,
        z |-> c.z \o <<particle.z0, particle.z1, particle.z2>>,
        i |-> Append(c.i, idx0),
        j |-> Append(c.j, idx0 + 1),
        k |-> Append(c.k, idx0 + 2)]

ParticleNz(particle) == Get(particle, "nz", 0)

\* a variant with another default
ParticleArea_one(particle) == Get(particle, "area", 1)
ParticleArea(particle) == Get(particle, "area", 0)

\* the body of the inner loop for one particle
ProcessParticle(st, building_id, idx, particle) ==
    LET nz == ParticleNz(particle)
        area == ParticleArea(particle)
        surface_type == classify_surface(nz, Epsilon)
        surface_info == [BuildingID |-> building_id, SurfaceType |-> surface_type,
                         Area |-> area, Index |-> idx]
        infos == Append(st.surface_info_list, surface_info)
        err == MissingCoord(particle)
    IN IF err # NoError
       THEN [coords |-> st.coords, surface_info_list |-> infos, raised |-> err]
       ELSE [coords |-> [st.coords EXCEPT
                            ![surface_type] = ExtendCoords(@, particle)],
             surface_info_list |-> infos,
             raised |-> NoError]

\* for idx, particle in enumerate(particles), from position n on
RECURSIVE ProcessParticles(_, _, _, _)
ProcessParticles(st, building_id, particles, n) ==
    IF n > Len(particles) \/ st.raised # NoError THEN st
    ELSE ProcessParticles(ProcessParticle(st, building_id, n - 1, particles[n]),
                          building_id, particles, n + 1)

\* for building_data in data, from position b on
RECURSIVE ProcessBuildings(_, _, _)
ProcessBuildings(st, items, b) ==
    IF b > Len(items) \/ st.raised # NoError THEN st
    ELSE LET building_data == items[b]
             building_id == Get(building_data, "ehr", Unknown)
             particles == Get(building_data, "particles", <<>>)
         IN ProcessBuildings(ProcessParticles(st, building_id, particles, 1),
                             items, b + 1)

LoopStart == [coords |-> InitCoords, surface_info_list |-> <<>>, raised |-> NoError]

----------------------------------------------------------------------------
(* visualize_data: the table, the meshes and the figure *)

Columns == <<"Building ID", "Surface Type", "Area">>

ColumnIndex(col) == CHOOSE n \in 1..Len(Columns) : Columns[n] = col

\* treeview.insert('', 'end', values=(...)): the cells are stored as text;
\* the n-th item the widget creates gets the item id ItemId(n)
NewRow(n, surface_info) ==
    [iid |-> ItemId(n),
     values |-> <<surface_info.BuildingID, surface_info.SurfaceType,
                  DecimalText(surface_info.Area)>>]

\* a variant that does not delete the children first
UpdateTreeview_keep(rows, count, surface_info_list) ==
    rows \o [n \in 1..Len(surface_info_list) |->
                NewRow(count + n, surface_info_list[n])]

\* delete every child, then insert one row per surface_info
UpdateTreeview(rows, count, surface_info_list) ==
    [n \in 1..Len(surface_info_list) |-> NewRow(count + n, surface_info_list[n])]

Colors == [t \in {Roof, Wall, Floor} |->
              IF t = Roof THEN "red" ELSE IF t = Wall THEN "gray" ELSE "green"]

Mesh3d(surface_type, c) ==
    [name |-> surface_type, color |-> Colors[surface_type],
     x |-> c.x, y |-> c.y, z |-> c.z, i |-> c.i, j |-> c.j, k |-> c.k]

\* a variant without the test of c['x']
RECURSIVE MakeMeshes_all(_, _)
MakeMeshes_all(coords, n) ==
    IF n > Len(SurfaceTypes) THEN <<>>
    ELSE <<Mesh3d(SurfaceTypes[n], coords[SurfaceTypes[n]])>>
         \o MakeMeshes_all(coords, n + 1)

\* for surface_type, c in coords.items(): a mesh only if c['x'] is not empty
RECURSIVE MakeMeshes(_, _)
MakeMeshes(coords, n) ==
    IF n > Len(SurfaceTypes) THEN <<>>
    ELSE (IF coords[SurfaceTypes[n]].x # <<>>
          THEN <<Mesh3d(SurfaceTypes[n], coords[SurfaceTypes[n]])>>
          ELSE <<>>)
         \o MakeMeshes(coords, n + 1)

MsgNone == "(nothing printed)"
MsgFormat == "Unexpected data format received from API."
MsgNoData == "No particle data available to visualize."

\* a variant that prints nothing
NoMeshMessage_silent(meshes) == MsgNone

\* if not meshes: print('No particle data available to visualize.')
NoMeshMessage(meshes) == IF meshes = <<>> THEN MsgNoData ELSE MsgNone

\* ... and return; else build the figure from the meshes and show it
FigureShown(meshes) == meshes # <<>>

\* what the rest of the function does once the loop has ended without error
AfterLoop(st, rows, count) ==
    LET meshes == MakeMeshes(st.coords, 1)
        shown == FigureShown(meshes)
    IN [tree |-> UpdateTreeview(rows, count, st.surface_info_list),
        serial |-> count + Len(st.surface_info_list),
        meshes |-> meshes,
        shown |-> shown,
        printed |-> NoMeshMessage(meshes)]

\* what is left when the function is left before the table is touched
Untouched(rows, count, printed) ==
    [tree |-> rows, serial |-> count, meshes |-> <<>>, shown |-> FALSE,
     printed |-> printed]

\* a variant in which the error does not keep the table from being updated
Outcome_partial(st, rows, count) ==
    AfterLoop(st, rows, count)

\* a KeyError in the loop leaves the function at once
Outcome(st, rows, count) ==
    IF st.raised # NoError THEN Untouched(rows, count, MsgNone)
    ELSE AfterLoop(st, rows, count)

\* visualize_data(data, treeview): the widget afterwards and the call's frame.
\* The function returns None on every path that does not raise.
visualize_data(data, rows, count) ==
    IF data.type # "list"
    THEN [out |-> Untouched(rows, count, MsgFormat), st |-> LoopStart]
    ELSE LET st == ProcessBuildings(LoopStart, data.items, 1)
         IN [out |-> Outcome(st, rows, count), st |-> st]

----------------------------------------------------------------------------
(* sortby *)

PyStr(s) == [type |-> "str", v |-> s]
PyFloat(n) == [type |-> "float", v |-> n]

PyLess(a, b) == IF a.type = "float" THEN a.v < b.v ELSE TextLess(a.v, b.v)

\* tuple < tuple for the pairs (value, child)
ItemLess(a, b) ==
    IF a[1] # b[1] THEN PyLess(a[1], b[1]) ELSE PyLess(a[2], b[2])

\* data = [(tree.set(child, col), child) for child in tree.get_children('')]
SortData(rows, col) ==
    [n \in 1..Len(rows) |->
        <<PyStr(rows[n].values[ColumnIndex(col)]), PyStr(rows[n].iid)>>]

\* a variant that leaves the Area cells as text
ConvertArea_text(data, col) == data

\* if col == 'Area': the values become floats
ConvertArea(data, col) ==
    IF col = "Area"
    THEN [n \in 1..Len(data) |-> <<PyFloat(ParseFloat(data[n][1].v)), data[n][2]>>]
    ELSE data

\* list.sort(reverse=...) is stable: item goes behind every element of the
\* sorted prefix that it does not have to precede
RECURSIVE InsertSorted(_, _, _)
InsertSorted(sorted, item, reverse) ==
    IF sorted = <<>> THEN <<item>>
    ELSE LET last == sorted[Len(sorted)]
             before == IF reverse = 0 THEN ItemLess(item, last)
                       ELSE ItemLess(last, item)
         IN IF before
            THEN Append(InsertSorted(SubSeq(sorted, 1, Len(sorted) - 1),
                                     item, reverse), last)
            ELSE Append(sorted, item)

RECURSIVE ListSort(_, _)
ListSort(data, reverse) ==
    IF data = <<>> THEN <<>>
    ELSE InsertSorted(ListSort(SubSeq(data, 1, Len(data) - 1), reverse),
                      data[Len(data)], reverse)

\* tree.move(item, '', idx)
TreeMove(rows, iid, idx) ==
    LET at == CHOOSE n \in 1..Len(rows) : rows[n].iid = iid
        rest == SubSeq(rows, 1, at - 1) \o SubSeq(rows, at + 1, Len(rows))
        pos == IF idx > Len(rest) THEN Len(rest) ELSE idx
    IN SubSeq(rest, 1, pos) \o <<rows[at]>> \o SubSeq(rest, pos + 1, Len(rest))

\* for idx, item in enumerate(data): tree.move(item[1], '', idx)
RECURSIVE MoveAll(_, _, _)
MoveAll(rows, data, n) ==
    IF n > Len(data) THEN rows
    ELSE MoveAll(TreeMove(rows, data[n][2].v, n - 1), data, n + 1)

\* a variant that rebinds the same direction
NextDescending_same(descending) == descending

\* int(not descending)
NextDescending(descending) == IF descending = 0 THEN 1 ELSE 0

\* the rows after sortby(tree, col, descending)
sortby(rows, col, descending) ==
    MoveAll(rows, ListSort(ConvertArea(SortData(rows, col), col), descending), 1)

----------------------------------------------------------------------------
(* The application *)

ColumnSet == {Columns[n] : n \in 1..Len(Columns)}

\* main(): an empty table, every header bound to sortby(treeview, c, False)
Init ==
    /\ tree = <<>>
    /\ serial = 0
    /\ heading = [c \in ColumnSet |-> 0]
    /\ clicks = [c \in ColumnSet |-> 0]
    /\ frame = [fn |-> "main"]

\* a call of visualize_data(data, treeview), from its entry to its exit
VisualizeData(data) ==
    \E r \in {visualize_data(data, tree, serial)} :
       /\ r.out.serial <= MaxSerial
       /\ tree' = r.out.tree
       /\ serial' = r.out.serial
       /\ frame' = [fn |-> "visualize_data", data |-> data,
                    coords |-> r.st.coords,
                    surface_info_list |-> r.st.surface_info_list,
                    raised |-> r.st.raised,
                    meshes |-> r.out.meshes,
                    shown |-> r.out.shown,
                    printed |-> r.out.printed]
       /\ UNCHANGED <<heading, clicks>>

\* a click on the header of column col: the command bound to it runs
HeaderClick(col) ==
    /\ frame.fn # "on_button_click"
    /\ clicks["Building ID"] + clicks["Surface Type"] + clicks["Area"] < MaxClicks
    /\ tree' = sortby(tree, col, heading[col])
    /\ heading' = [heading EXCEPT ![col] = NextDescending(heading[col])]
    /\ clicks' = [clicks EXCEPT ![col] = @ + 1]
    /\ frame' = [fn |-> "sortby", col |-> col, descending |-> heading[col]]
    /\ UNCHANGED serial

\* a call of classify_surface(nz) with the default epsilon
ClassifySurface(nz) ==
    /\ frame' = [fn |-> "classify_surface", nz |-> nz, epsilon |-> Epsilon,
                 ret |-> classify_surface(nz, Epsilon)]
    /\ UNCHANGED <<tree, serial, heading, clicks>>

----------------------------------------------------------------------------
(* A session: responses arrive and headers are clicked, in any order *)

R9 == Triangle(Epsilon + 1, 9, Va)
R10 == Triangle(Epsilon + 1, 10, Vb)
W9 == Triangle(Epsilon, 9, Vb)

B1 == [ehr |-> <<66>>, particles |-> <<R9>>]
B2 == [particles |-> <<R10>>]
B3 == [ehr |-> <<97>>, particles |-> <<Without(R9, "y1")>>]

\* the responses of a session: no list, no building, buildings without
\* triangles, one and two rows, rows that are equal, and a triangle that
\* lacks a coordinate, first or after another
SessionResponses ==
    {NotAList,
     PyList(<<>>),
     PyList(<<[ehr |-> <<97>>], [particles |-> <<>>]>>),
     PyList(<<B1>>),
     PyList(<<B2>>),
     PyList(<<B2, B3>>),
     PyList(<<B1, B2>>),
     PyList(<<B2, [ehr |-> <<97>>], B1>>),
     PyList(<<B1, B1>>),
     PyList(<<B3>>),
     PyList(<<B1, B3, B2>>)}

Load ==
    /\ frame.fn # "on_button_click"
    /\ \E data \in SessionResponses : VisualizeData(data)

Click == \E col \in ColumnSet : HeaderClick(col)

Next == Load \/ Click

Spec == Init /\ [][Next]_vars

\* on_button_click holds the decoded response and calls visualize_data next,
\* in the window as main() has left it
Entered(responses) ==
    /\ tree = <<>>
    /\ serial = 0
    /\ heading = [c \in ColumnSet |-> 0]
    /\ clicks = [c \in ColumnSet |-> 0]
    /\ \E data \in responses :
          frame = [fn |-> "on_button_click", data |-> data]

Run ==
    /\ frame.fn = "on_button_click"
    /\ VisualizeData(frame.data)

----------------------------------------------------------------------------
(* One response of any shape, visualized *)

PipelineResponses == Responses(Buildings(PipelineParticles, PipelineEhrs))

InitPipeline == Entered(PipelineResponses)

NextPipeline == Run

SpecPipeline == InitPipeline /\ [][NextPipeline]_vars

----------------------------------------------------------------------------
(* One response, visualized, and its table sorted again and again *)

\* rows that agree and differ in each column: upper and lower case and
\* Unknown, Roof and Wall, 9 and 10
SortBuildings ==
    {[ehr |-> <<66>>, particles |-> <<R9>>],
     [ehr |-> <<97>>, particles |-> <<R10>>],
     [ehr |-> <<66>>, particles |-> <<R10>>],
     [particles |-> <<W9>>]}

SortResponses == {PyList(items) : items \in SeqsUpTo(SortBuildings, MaxRows)}

InitSort == Entered(SortResponses)

NextSort == Run \/ Click

SpecSort == InitSort /\ [][NextSort]_vars

----------------------------------------------------------------------------
(* classify_surface on its own *)

NextClassify == \E nz \in (-MaxNz)..MaxNz : ClassifySurface(nz)

SpecClassify == Init /\ [][NextClassify]_vars

----------------------------------------------------------------------------
(* Properties *)

\* the triangles of a response in the order the loops visit them
RECURSIVE Flatten(_)
Flatten(items) ==
    IF items = <<>> THEN <<>>
    ELSE Get(Head(items), "particles", <<>>) \o Flatten(Tail(items))

\* the building identifier each of those triangles is listed under
RECURSIVE FlattenIds(_)
FlattenIds(items) ==
    IF items = <<>> THEN <<>>
    ELSE LET b == Head(items)
             ps == Get(b, "particles", <<>>)
         IN [n \in 1..Len(ps) |-> IF "ehr" \in DOMAIN b THEN b.ehr ELSE Unknown]
            \o FlattenIds(Tail(items))

LacksCoord(p) == \E n \in 1..Len(CoordKeys) : CoordKeys[n] \notin DOMAIN p

\* the class of a triangle by the tolerance band, a missing nz counting as 0
BandClass(p) ==
    LET nz == IF "nz" \in DOMAIN p THEN p.nz ELSE 0
    IN IF nz > Epsilon THEN Roof ELSE IF nz < -Epsilon THEN Floor ELSE Wall

IsRun == frame.fn = "visualize_data"
IsListRun == IsRun /\ frame.data.type = "list"
Input == Flatten(frame.data.items)

\* the positions of the triangles of class type in s, in order, from n on
RECURSIVE ClassPositions(_, _, _)
ClassPositions(s, n, type) ==
    IF n > Len(s) THEN <<>>
    ELSE (IF BandClass(s[n]) = type THEN <<n>> ELSE <<>>)
         \o ClassPositions(s, n + 1, type)

\* C1: classify_surface(nz) with the default epsilon returns one of Roof, Floor
\* and Wall: Roof exactly when nz > epsilon, Floor exactly when nz < -epsilon,
\* Wall otherwise, so that nz = epsilon and nz = -epsilon both give Wall.
C1_ClassifyBand ==
    frame.fn = "classify_surface" =>
        /\ frame.ret \in {Roof, Floor, Wall}
        /\ (frame.ret = Roof) <=> (frame.nz > frame.epsilon)
        /\ (frame.ret = Floor) <=> (frame.nz < -frame.epsilon)
        /\ (frame.ret = Wall) <=>
              (frame.nz <= frame.epsilon /\ frame.nz >= -frame.epsilon)
        /\ frame.nz \in {Epsilon, -Epsilon} => frame.ret = Wall

C1_Witness ==
    /\ frame.fn = "classify_surface"
    /\ frame.nz = Epsilon
    /\ frame.ret = Wall

\* the triangles whose vertices the loop has appended, at the end of a run:
\* all of them, or those before the one at which the run was left
Appended ==
    IF frame.raised = NoError THEN Input
    ELSE SubSeq(Input, 1, Len(frame.surface_info_list) - 1)

\* C2: in every class, the t-th index triple is (3t, 3t+1, 3t+2), the x, y and
\* z lists are 3 times as long as the index lists, and positions 3t..3t+2 hold
\* the vertices of the t-th triangle assigned to the class, in their order.
C2_IndexTriples ==
    IsListRun =>
        \A type \in {Roof, Wall, Floor} :
            LET c == frame.coords[type]
                mine == ClassPositions(Appended, 1, type)
            IN /\ Len(c.i) = Len(mine) /\ Len(c.j) = Len(mine)
               /\ Len(c.k) = Len(mine)
               /\ Len(c.x) = 3 * Len(c.i) /\ Len(c.y) = 3 * Len(c.i)
               /\ Len(c.z) = 3 * Len(c.i)
               /\ \A t \in 0..(Len(mine) - 1) :
                     LET p == Appended[mine[t + 1]]
                     IN /\ c.i[t + 1] = 3 * t
                        /\ c.j[t + 1] = 3 * t + 1
                        /\ c.k[t + 1] = 3 * t + 2
                        /\ <<c.x[3 * t + 1], c.x[3 * t + 2], c.x[3 * t + 3]>>
                              = <<p.x0, p.x1, p.x2>>
                        /\ <<c.y[3 * t + 1], c.y[3 * t + 2], c.y[3 * t + 3]>>
                              = <<p.y0, p.y1, p.y2>>
                        /\ <<c.z[3 * t + 1], c.z[3 * t + 2], c.z[3 * t + 3]>>
                              = <<p.z0, p.z1, p.z2>>

\* two triangles of different shape in one class, the second at 3..5
C2_Witness ==
    /\ IsListRun
    /\ frame.coords[Wall].i = <<0, 3>>
    /\ frame.coords[Wall].x = <<2, 3, 4, 0, 1, 0>>

\* the item ids of the rows of a table
ItemIds(rows) == {rows[n].iid : n \in 1..Len(rows)}

\* the step is a call of visualize_data
RunStep == frame'.fn = "visualize_data"

\* the call of this step ran to its end on a list of buildings
Completes == frame'.data.type = "list" /\ frame'.raised = NoError

Cell(row, col) == row.values[ColumnIndex(col)]

SameKey(col, a, b) ==
    IF col = "Area" THEN ParseFloat(Cell(a, col)) = ParseFloat(Cell(b, col))
    ELSE Cell(a, col) = Cell(b, col)

\* numeric order for Area, code point order for the text columns
KeyLeq(col, a, b) ==
    IF col = "Area" THEN ParseFloat(Cell(a, col)) <= ParseFloat(Cell(b, col))
    ELSE Cell(a, col) = Cell(b, col) \/ TextLess(Cell(a, col), Cell(b, col))

\* the step is a call of sortby, on column frame'.col with frame'.descending
SortStep == frame'.fn = "sortby" /\ clicks' # clicks

\* the position of the row with item id iid
PositionOf(rows, iid) == CHOOSE n \in 1..Len(rows) : rows[n].iid = iid

\* C4: sortby is stable in both directions: two rows whose values in the
\* sorted column compare equal keep the relative order they had before the call.
C4_Stable ==
    [][SortStep =>
          \A m, n \in 1..Len(tree) :
              (m < n /\ SameKey(frame'.col, tree[m], tree[n])) =>
                  PositionOf(tree', tree[m].iid) < PositionOf(tree', tree[n].iid)]_vars

\* C5: after sortby the rows are a permutation of the rows before, and their
\* keys in the column are non-decreasing (ascending) or non-increasing
\* (descending); Area is compared as a number, the other columns as text.
C5_SortedPermutation ==
    [][SortStep =>
          /\ Len(tree') = Len(tree)
          /\ {tree'[n] : n \in 1..Len(tree')} = {tree[n] : n \in 1..Len(tree)}
          /\ \A n \in 1..(Len(tree') - 1) :
                IF frame'.descending = 0
                THEN KeyLeq(frame'.col, tree'[n], tree'[n + 1])
                ELSE KeyLeq(frame'.col, tree'[n + 1], tree'[n])]_vars

\* Area 10 was inserted before Area 9; an ascending sort has put 9 first
C5_Witness ==
    /\ frame.fn = "sortby"
    /\ frame.col = "Area"
    /\ frame.descending = 0
    /\ Len(tree) = 2
    /\ Cell(tree[1], "Area") = <<57>>
    /\ Cell(tree[2], "Area") = <<49, 48>>
    /\ TextLess(tree[2].iid, tree[1].iid)

\* C6: the k-th click on a column's header sorts ascending when k is odd and
\* descending when k is even, and leaves the header bound to the opposite
\* direction, whatever was clicked or loaded in between.
C6_Toggle ==
    /\ \A c \in ColumnSet :
          heading[c] = (IF clicks[c] % 2 = 0 THEN 0 ELSE 1)
    /\ frame.fn = "sortby" =>
          frame.descending = (IF clicks[frame.col] % 2 = 1 THEN 0 ELSE 1)

\* the second click on Area, after a click on Building ID and a reload
C6_Witness ==
    /\ frame.fn = "sortby"
    /\ frame.col = "Area"
    /\ frame.descending = 1
    /\ clicks["Area"] = 2
    /\ clicks["Building ID"] = 1
    /\ clicks["Surface Type"] = 0
    /\ tree # <<>>
    /\ serial > Len(tree)

LacksField(p) == "area" \notin DOMAIN p \/ "nz" \notin DOMAIN p

\* the position of the first triangle of s that lacks area or nz (0: none)
FirstLackingField(s) ==
    LET at == {n \in 1..Len(s) : LacksField(s[n])}
    IN IF at = {} THEN 0 ELSE CHOOSE n \in at : \A m \in at : n <= m

\* the position of the first triangle of s that lacks a coordinate (0: none)
FirstLackingCoord(s) ==
    LET at == {n \in 1..Len(s) : LacksCoord(s[n])}
    IN IF at = {} THEN 0 ELSE CHOOSE n \in at : \A m \in at : n <= m

\* the number of vertices in the lists of all classes
VertexCount(coords) ==
    Len(coords[Roof].x) + Len(coords[Wall].x) + Len(coords[Floor].x)

\* C7 as stated: when a triangle lacks area or nz the run raises an error, and
\* no catalog row and no vertex is produced for that triangle or a later one.
C7_FailFast ==
    (IsListRun /\ FirstLackingField(Input) > 0) =>
        /\ frame.raised # NoError
        /\ Len(tree) < FirstLackingField(Input)
        /\ Len(frame.surface_info_list) < FirstLackingField(Input)
        /\ VertexCount(frame.coords) < 3 * FirstLackingField(Input)

\* C7: a triangle that lacks area is listed with area 0 and one that lacks nz
\* is classified as nz = 0, a Wall; neither raises an error: a run raises only
\* at a triangle that lacks a coordinate, and a run on triangles that all have
\* their coordinates produces the row and the vertices of every triangle.
C7_Defaults ==
    IsListRun =>
        /\ \A n \in 1..Len(frame.surface_info_list) :
              /\ "area" \notin DOMAIN Input[n] =>
                    frame.surface_info_list[n].Area = 0
              /\ "nz" \notin DOMAIN Input[n] =>
                    frame.surface_info_list[n].SurfaceType = Wall
        /\ frame.raised # NoError =>
              /\ frame.raised.exc = "KeyError"
              /\ Len(frame.surface_info_list) = FirstLackingCoord(Input)
        /\ FirstLackingCoord(Input) = 0 =>
              /\ frame.raised = NoError
              /\ Len(tree) = Len(Input)
              /\ VertexCount(frame.coords) = 3 * Len(Input)
              /\ \A n \in 1..Len(Input) :
                    "area" \notin DOMAIN Input[n] =>
                        Cell(tree[n], "Area") = <<48>>

\* a triangle without area, then one without nz: two rows, six vertices
C7_Witness ==
    /\ IsListRun
    /\ Len(Input) = 2
    /\ "area" \notin DOMAIN Input[1]
    /\ "nz" \notin DOMAIN Input[2]
    /\ frame.raised = NoError
    /\ Len(tree) = 2
    /\ Cell(tree[1], "Area") = <<48>>
    /\ Cell(tree[2], "Surface Type") = Wall
    /\ VertexCount(frame.coords) = 6

\* the three outcomes of a run, by its input
OutcomeOf(data) ==
    IF data.type # "list" THEN "error"
    ELSE IF FirstLackingCoord(Flatten(data.items)) > 0 THEN "error"
    ELSE IF Flatten(data.items) = <<>> THEN "nothing to render"
    ELSE "meshes"

\* what the caller gets: the exception raised, or else the value None
Returned(f) == IF f.raised # NoError THEN f.raised ELSE "None"

\* what the run lets an observer tell: the exception raised and the message
Reported(f) == <<f.raised.exc, f.printed>>

\* consecutive runs
TwoRuns == frame.fn = "visualize_data" /\ frame'.fn = "visualize_data"

\* C8 as stated: no two of the three outcomes yield the same return or error.
C8_ReturnDistinguishes ==
    [][(TwoRuns /\ OutcomeOf(frame.data) # OutcomeOf(frame'.data)) =>
          Returned(frame) # Returned(frame')]_vars

\* C8: every run that does not raise returns None, and the three outcomes
\* differ in what is raised and printed: nothing printed and the figure shown
\* with meshes; 'No particle data ...' printed, no figure and an empty table
\* with nothing to render; a KeyError, or 'Unexpected data format ...', on error.
C8_ReportDistinguishes ==
    /\ [][(TwoRuns /\ OutcomeOf(frame.data) # OutcomeOf(frame'.data)) =>
             Reported(frame) # Reported(frame')]_vars
    /\ [][RunStep =>
             /\ OutcomeOf(frame'.data) = "meshes" =>
                   /\ Reported(frame') = <<"none", MsgNone>>
                   /\ frame'.shown
             /\ OutcomeOf(frame'.data) = "nothing to render" =>
                   /\ Reported(frame') = <<"none", MsgNoData>>
                   /\ ~frame'.shown
                   /\ tree' = <<>>
             /\ OutcomeOf(frame'.data) = "error" =>
                   /\ Reported(frame') \in
                         {<<"none", MsgFormat>>, <<"KeyError", MsgNone>>}
                   /\ ~frame'.shown]_vars

\* a run with nothing to render right after a run that showed meshes
C8_Witness ==
    /\ IsListRun
    /\ frame.printed = MsgNoData
    /\ frame.data.items # <<>>
    /\ tree = <<>>
    /\ serial = 2

\* the classes of the triangles the run has appended to a class
AppendedClasses == {BandClass(Appended[n]) : n \in 1..Len(Appended)}

MeshClasses == {frame.meshes[n].name : n \in 1..Len(frame.meshes)}

\* C9 as stated: for any input the classes with a mesh are exactly the classes
\* a triangle was assigned to, and without any such class no figure is built.
C9_MeshPerClass ==
    IsRun =>
        /\ frame.data.type = "list" => MeshClasses = AppendedClasses
        /\ MeshClasses = {} => ~frame.shown

\* C9: on an input whose run is not left by an error the classes with a mesh
\* are exactly the classes of its triangles, no mesh is empty, and without a
\* triangle no figure is built; a run left by an error builds no mesh at all.
C9_MeshPerClassOfCompletedRun ==
    IsRun =>
        /\ (frame.data.type = "list" /\ frame.raised = NoError) =>
              /\ MeshClasses = {BandClass(Input[n]) : n \in 1..Len(Input)}
              /\ Len(frame.meshes) = Cardinality(MeshClasses)
        /\ \A n \in 1..Len(frame.meshes) :
              /\ frame.meshes[n].x # <<>>
              /\ frame.meshes[n].i # <<>>
              /\ frame.meshes[n].x = frame.coords[frame.meshes[n].name].x
        /\ frame.shown <=> (frame.meshes # <<>>)
        /\ frame.raised # NoError => frame.meshes = <<>>

\* a Roof and a Floor triangle: two meshes, none for Wall
C9_Witness ==
    /\ IsListRun
    /\ frame.raised = NoError
    /\ MeshClasses = {Roof, Floor}
    /\ frame.coords[Wall].x = <<>>
    /\ frame.shown

\* C10: when a triangle lacks a coordinate the run is left by an error at that
\* triangle, the first such one; the table keeps its rows and their order, not
\* even the rows of the triangles before it are inserted, and no mesh or figure
\* is shown.
C10_NoEffectOnError ==
    [][(RunStep /\ frame'.data.type = "list"
          /\ FirstLackingCoord(Flatten(frame'.data.items)) > 0) =>
          LET triangles == Flatten(frame'.data.items)
              bad == FirstLackingCoord(triangles)
          IN /\ frame'.raised.exc = "KeyError"
             /\ frame'.raised.key \notin DOMAIN triangles[bad]
             /\ Len(frame'.surface_info_list) = bad
             /\ VertexCount(frame'.coords) = 3 * (bad - 1)
             /\ tree' = tree
             /\ serial' = serial
             /\ frame'.meshes = <<>>
             /\ ~frame'.shown]_vars

\* the run failed at its second triangle; the table still shows two rows in
\* the descending order a sort had given them
C10_Witness ==
    /\ IsListRun
    /\ frame.raised # NoError
    /\ Len(frame.surface_info_list) = 2
    /\ Len(tree) = 2
    /\ TextLess(tree[2].iid, tree[1].iid)

====
